---- MODULE Spec2Model ----
(***************************************************************************)
(* Model of tek_mdo/main.py: the VISA instrument handle (BaseInstrument,   *)
(* VisaInstrument) and the MDO34 command catalog (ModelMDO34).             *)
(*                                                                         *)
(* Text is a sequence of one-character strings.  Vertical positions are    *)
(* in hundredths of a division (8.01 is 801).  Horizontal scales are       *)
(* decimal numbers [m |-> mantissa, e |-> exponent] meaning m * 10^e       *)
(* seconds, because 400e-12 .. 1000 does not fit one integer unit.         *)
(*                                                                         *)
(* self._inst is a pyvisa MessageBasedResource.  Its session is "open"     *)
(* after rm.open_resource, "closed" after close(); pyvisa raises           *)
(* InvalidSession for I/O on a closed session and VisaIOError for a        *)
(* transport failure (timeout) on an open one.                             *)
(***************************************************************************)
EXTENDS Integers, Sequences, FiniteSets, TLC

VARIABLES
    handle,      \* "none" | "live" | "raised" | "absent" (create returned None)
    ctor,        \* the construction that was attempted and how it ended
    session,     \* session of self._inst: "unopened" | "open" | "closed"
    scope,       \* with block: "out" | "in" | "unwind" (the body raised) |
                 \* "exited" (left normally) | "raised" (left by the exception)
    exitCloses,  \* close() calls made by __exit__ of the latest scope
    releases,    \* times the VISA session was actually released
    sent,        \* messages transmitted to the instrument, in order
    sentBefore,  \* sent as it was when the latest call started
    instr,       \* state of the simulated instrument
    lastOp,      \* the latest call on the handle and its arguments
    lastRes,     \* its outcome: value returned or exception raised
    lastReply    \* the instrument's reply to the latest query

vars == <<handle, ctor, session, scope, exitCloses, releases, sent,
          sentBefore, instr, lastOp, lastRes, lastReply>>

-----------------------------------------------------------------------------
(* Bounds of the exploration *)

MaxSent == 2       \* longest log explored where single calls are examined
MaxRoundTrip == 3  \* longest log explored where a set is followed by a get
MaxPad == 1    \* most whitespace characters on each side of a reply

-----------------------------------------------------------------------------
(* Text *)

AC == <<"A", "C">>
DC == <<"D", "C">>
DCREJect == <<"D", "C", "R", "E", "J", "e", "c", "t">>
DUAL == <<"D", "U", "A", "L">>
FFT == <<"F", "F", "T">>
ADVanced == <<"A", "D", "V", "a", "n", "c", "e", "d">>
SPECTRUM == <<"S", "P", "E", "C", "T", "R", "U", "M">>
GND == <<"G", "N", "D">>
IdnText == <<"T", "E", "K">>

Whitespace == {" ", "\t"}
Quote == {"\""}

RECURSIVE LStrip(_, _)
LStrip(s, chars) ==
    IF s # <<>> /\ Head(s) \in chars THEN LStrip(Tail(s), chars) ELSE s

RECURSIVE RStrip(_, _)
RStrip(s, chars) ==
    IF s # <<>> /\ s[Len(s)] \in chars
    THEN RStrip(SubSeq(s, 1, Len(s) - 1), chars)
    ELSE s

\* str.strip(chars): drop leading and trailing characters that are in chars
StripChars(s, chars) == RStrip(LStrip(s, chars), chars)

\* str.strip(): drop leading and trailing whitespace
Strip(s) == StripChars(s, Whitespace)

Rep(c, n) == [i \in 1..n |-> c]

StrVal(s) == [type |-> "str", val |-> s]
IntVal(n) == [type |-> "int", val |-> n]

\* f'{value:<spec>}': the formatted field keeps the format and the value
Fmt(spec, v) == [fmt |-> spec, val |-> v]

NoVal == [type |-> "none"]

-----------------------------------------------------------------------------
(* Numbers as text: float(text) and the decimal numbers m * 10^e *)

Sci(m, e) == [m |-> m, e |-> e]

Digits == <<"0", "1", "2", "3", "4", "5", "6", "7", "8", "9">>

IsDigit(c) == \E d \in 1..10 : Digits[d] = c

DigitVal(c) == (CHOOSE d \in 1..10 : Digits[d] = c) - 1

RECURSIVE NatText(_)
NatText(n) ==
    IF n < 10 THEN <<Digits[n + 1]>>
    ELSE NatText(n \div 10) \o <<Digits[(n % 10) + 1]>>

IntText(n) == IF n < 0 THEN <<"-">> \o NatText(-n) ELSE NatText(n)

\* the text an instrument answers a numeric query with
SciText(x) == IntText(x.m) \o <<"E">> \o IntText(x.e)

RECURSIVE ParseNat(_)
ParseNat(s) ==
    IF Len(s) = 1 THEN DigitVal(s[1])
    ELSE 10 * ParseNat(SubSeq(s, 1, Len(s) - 1)) + DigitVal(s[Len(s)])

IsNatText(s) == s # <<>> /\ \A i \in 1..Len(s) : IsDigit(s[i])

IsIntText(s) ==
    s # <<>> /\ IsNatText(IF s[1] = "-" THEN Tail(s) ELSE s)

ParseInt(s) == IF s[1] = "-" THEN 0 - ParseNat(Tail(s)) ELSE ParseNat(s)

\* float(text): blanks around the number are accepted, anything else is a
\* ValueError.  The result has kind "ok" and the number, or kind "ValueError".
ParseFloat(text) ==
    LET t == Strip(text)
        es == {i \in 1..Len(t) : t[i] = "E"}
        k == IF es = {} THEN Len(t) + 1 ELSE CHOOSE i \in es : \A j \in es : i <= j
        mt == SubSeq(t, 1, k - 1)
        et == IF es = {} THEN <<"0">> ELSE SubSeq(t, k + 1, Len(t))
    IN IF IsIntText(mt) /\ IsIntText(et)
       THEN [kind |-> "ok", val |-> Sci(ParseInt(mt), ParseInt(et))]
       ELSE [kind |-> "ValueError", val |-> NoVal]

RECURSIVE NumDigits(_)
NumDigits(n) == IF n < 10 THEN 1 ELSE 1 + NumDigits(n \div 10)

RECURSIVE Pow10(_)
Pow10(k) == IF k = 0 THEN 1 ELSE 10 * Pow10(k - 1)

\* order of magnitude of a positive decimal number
Magnitude(x) == x.e + NumDigits(x.m) - 1

\* x <= y for positive decimal numbers
PosLeq(x, y) ==
    IF Magnitude(x) # Magnitude(y) THEN Magnitude(x) < Magnitude(y)
    ELSE LET d == IF NumDigits(x.m) > NumDigits(y.m)
                  THEN NumDigits(x.m) ELSE NumDigits(y.m)
         IN x.m * Pow10(d - NumDigits(x.m)) <= y.m * Pow10(d - NumDigits(y.m))

\* x <= y for decimal numbers
SciLeq(x, y) ==
    IF x.m = 0 THEN y.m >= 0
    ELSE IF y.m = 0 THEN x.m < 0
    ELSE IF x.m < 0 /\ y.m > 0 THEN TRUE
    ELSE IF x.m > 0 /\ y.m < 0 THEN FALSE
    ELSE IF x.m > 0 THEN PosLeq(x, y)
    ELSE PosLeq(Sci(0 - y.m, y.e), Sci(0 - x.m, x.e))

\* x * y for decimal numbers
SciMul(x, y) == Sci(x.m * y.m, x.e + y.e)

-----------------------------------------------------------------------------
(* Messages, replies and the simulated instrument *)

\* A SCPI message: f'{head}{n}:{field} {arg}'; n is 0 where there is none
Cmd(head, n, field, arg) == [head |-> head, n |-> n, field |-> field, arg |-> arg]

\* What the driver or the instrument did: value returned or exception raised,
\* and the transmitted-message log afterwards
Out(kind, val, log) == [kind |-> kind, val |-> val, log |-> log]

CH_NUMS == {1, 2, 3, 4}

\* The instrument's reply text: a value, quoted or not, padded with blanks
ReplyText(value, l, r, q) ==
    Rep(" ", l) \o (IF q THEN <<"\"">> ELSE <<>>) \o value
        \o (IF q THEN <<"\"">> ELSE <<>>) \o Rep(" ", r)

\* The value the instrument answers a query with: the coupling and the
\* horizontal scale it stores, any value v of the field's kind otherwise
InstrValue(ins, msg, v) ==
    IF msg.head = "CH" /\ msg.field = "COUPling?" /\ msg.n \in CH_NUMS
    THEN ins.coupling[msg.n]
    ELSE IF msg.head = "HORizontal" /\ msg.field = "SCAle?" THEN SciText(ins.xscale)
    ELSE v

\* The instrument executes a command it received
InstrApply(ins, msg) ==
    IF msg.head = "CH" /\ msg.field = "COUPling" /\ msg.n \in CH_NUMS
    THEN [ins EXCEPT !.coupling[msg.n] = msg.arg]
    ELSE IF msg.head = "HORizontal" /\ msg.field = "SCAle"
    THEN [ins EXCEPT !.xscale = msg.arg.val]
    ELSE ins

-----------------------------------------------------------------------------
(* pyvisa MessageBasedResource behind self._inst.  self is the handle's      *)
(* session state and the log of what reached the instrument; io says        *)
(* whether the transport works for this call.                               *)

inst_write(self, msg, io) ==
    IF self.session # "open" THEN Out("InvalidSession", NoVal, self.log)
    ELSE IF ~io THEN Out("VisaIOError", NoVal, self.log)
    ELSE Out("ok", NoVal, Append(self.log, [call |-> "write", msg |-> msg]))

inst_read(self, io, reply) ==
    IF self.session # "open" THEN Out("InvalidSession", NoVal, self.log)
    ELSE IF ~io THEN Out("VisaIOError", NoVal, self.log)
    ELSE Out("ok", reply, self.log)

\* write then read: a failing transport times the read out after the write
inst_query(self, msg, io, reply) ==
    IF self.session # "open" THEN Out("InvalidSession", NoVal, self.log)
    ELSE IF ~io
    THEN Out("VisaIOError", NoVal, Append(self.log, [call |-> "query", msg |-> msg]))
    ELSE Out("ok", reply, Append(self.log, [call |-> "query", msg |-> msg]))

\* close releases an open session; on a closed one pyvisa does nothing
inst_close(sess) == IF sess = "open" THEN "closed" ELSE sess

-----------------------------------------------------------------------------
(* VisaInstrument *)

\* write that swallows the transport's exceptions and returns 0
write_swallowing(self, message, io) ==
    LET r == inst_write(self, message, io)
    IN IF r.kind = "ok" THEN r ELSE Out("ok", NoVal, r.log)

write(self, message, io) == inst_write(self, message, io)

command(self, message, io) == write(self, message, io)

read(self, io, reply) == inst_read(self, io, reply)

query(self, message, io, reply) == inst_query(self, message, io, reply)

idn(self, io, reply) == query(self, Cmd("*IDN?", 0, "", NoVal), io, reply)

\* try: idn = self.idn; if not idn: raise ValueError
\* except pyvisa.VisaIOError: raise InstrIOError
check_communication(self, io, reply) ==
    LET r == idn(self, io, reply) IN
    IF r.kind = "VisaIOError" THEN Out("InstrIOError", NoVal, r.log)
    ELSE IF r.kind # "ok" THEN r
    ELSE IF r.val = <<>> THEN Out("ValueError", NoVal, r.log)
    ELSE Out("ok", NoVal, r.log)

\* ModelMDO34.__init__ -> VisaInstrument.__init__: open the resource, then
\* check the communication.  The result carries the session left behind.
ModelMDO34_init(argsOk, openOk, io, reply) ==
    IF ~argsOk THEN [kind |-> "TypeError", session |-> "unopened", log |-> <<>>]
    ELSE IF ~openOk THEN [kind |-> "VisaIOError", session |-> "unopened", log |-> <<>>]
    ELSE LET r == check_communication([session |-> "open", log |-> <<>>], io, reply)
         IN [kind |-> r.kind, session |-> "open", log |-> r.log]

\* create with "except Error:" in place of the bare "except:"
create_except_Error(r) ==
    IF r.kind = "ok" THEN [raised |-> "none", ret |-> "handle"]
    ELSE IF r.kind = "InstrIOError" THEN [raised |-> "none", ret |-> "None"]
    ELSE [raised |-> r.kind, ret |-> "nothing"]

\* BaseInstrument.create: try: instance = cls(...) except: instance = None
create(r) ==
    [raised |-> "none", ret |-> IF r.kind = "ok" THEN "handle" ELSE "None"]

\* a direct constructor call returns the handle or propagates the exception
construct(r) ==
    [raised |-> IF r.kind = "ok" THEN "none" ELSE r.kind,
     ret |-> IF r.kind = "ok" THEN "handle" ELSE "nothing"]

-----------------------------------------------------------------------------
(* ModelMDO34: argument checks.  Each is TRUE where the method goes on and   *)
(* FALSE where it raises ValueError.                                        *)

ValueError(self) == Out("ValueError", NoVal, self.log)

\* the check with "if ch_num not in range(5)"
check_ch_num_range5(ch_num) == ch_num \in 0..4

\* if ch_num not in self.CH_NUMS: raise ValueError
check_ch_num(ch_num) == ch_num \in CH_NUMS

\* if not isinstance(label, str) or len(label) > 30: raise ValueError
label_ok(label) == ~(~(label.type = "str") \/ Len(label.val) > 30)

\* if not coupling in {'AC', 'DC', 'DCREJect'}: raise ValueError
coupling_ok(coupling) == coupling \in {AC, DC, DCREJect}

\* the check with "if bandwidth < 0"
bandwidth_ok_zero(bandwidth) == ~(bandwidth < 0)

\* if bandwidth <= 0: raise ValueError
bandwidth_ok(bandwidth) == ~(bandwidth <= 0)

\* if scale <= 0: raise ValueError
scale_ok(scale) == ~(scale <= 0)

\* the check with "if not -8 < position < 8"
position_ok_open(position) == -800 < position /\ position < 800

\* if not -8 <= position <= 8: raise ValueError       (hundredths)
position_ok(position) == -800 <= position /\ position <= 800

\* if math_type not in {'DUAL', 'FFT', 'ADVanced', 'SPECTRUM'}: raise ValueError
math_type_ok(math_type) == math_type \in {DUAL, FFT, ADVanced, SPECTRUM}

\* if not 400 * 10E-12 <= scale <= 1000: raise ValueError
\* (10E-12 is 10 * 10^-12; the float product is 3.9999999999999994e-09,
\* which admits the same decimal numbers of the model as 4e-09)
x_scale_ok(scale) ==
    SciLeq(SciMul(Sci(400, 0), Sci(10, -12)), scale) /\ SciLeq(scale, Sci(1000, 0))

\* if not 0 <= position <= 100: raise ValueError
x_position_ok(position) == 0 <= position /\ position <= 100

-----------------------------------------------------------------------------
(* ModelMDO34: the command catalog.  io and reply are the transport's and    *)
(* the instrument's part in the call.                                       *)

\* what a getter returns from the outcome r of its query
Returning(r, val) == IF r.kind = "ok" THEN Out("ok", val, r.log) ELSE r

\* float(self.query(cmd))
FloatOf(r) ==
    IF r.kind # "ok" THEN r
    ELSE Out(ParseFloat(r.val).kind, ParseFloat(r.val).val, r.log)

set_channel_label(self, ch_num, label, io) ==
    IF ~check_ch_num(ch_num) THEN ValueError(self)
    ELSE IF ~label_ok(label) THEN ValueError(self)
    ELSE command(self, Cmd("CH", ch_num, "LABel", label.val), io)

get_channel_label(self, ch_num, io, reply) ==
    IF ~check_ch_num(ch_num) THEN ValueError(self)
    ELSE LET r == query(self, Cmd("CH", ch_num, "LABel?", NoVal), io, reply)
         IN Returning(r, StripChars(Strip(r.val), Quote))

set_channel_coupling(self, ch_num, coupling, io) ==
    IF ~check_ch_num(ch_num) THEN ValueError(self)
    ELSE IF ~coupling_ok(coupling) THEN ValueError(self)
    ELSE command(self, Cmd("CH", ch_num, "COUPling", coupling), io)

\* the getter with "return self.query(cmd)"
get_channel_coupling_raw(self, ch_num, io, reply) ==
    IF ~check_ch_num(ch_num) THEN ValueError(self)
    ELSE LET r == query(self, Cmd("CH", ch_num, "COUPling?", NoVal), io, reply)
         IN Returning(r, r.val)

get_channel_coupling(self, ch_num, io, reply) ==
    IF ~check_ch_num(ch_num) THEN ValueError(self)
    ELSE LET r == query(self, Cmd("CH", ch_num, "COUPling?", NoVal), io, reply)
         IN Returning(r, Strip(r.val))

set_channel_bandwidth(self, ch_num, bandwidth, io) ==
    IF ~check_ch_num(ch_num) THEN ValueError(self)
    ELSE IF ~bandwidth_ok(bandwidth) THEN ValueError(self)
    ELSE command(self, Cmd("CH", ch_num, "BANdwidth", Fmt(".4E", bandwidth)), io)

get_channel_bandwidth(self, ch_num, io, reply) ==
    IF ~check_ch_num(ch_num) THEN ValueError(self)
    ELSE FloatOf(query(self, Cmd("CH", ch_num, "BANdwidth?", NoVal), io, reply))

set_channel_scale(self, ch_num, scale, io) ==
    IF ~check_ch_num(ch_num) THEN ValueError(self)
    ELSE IF ~scale_ok(scale) THEN ValueError(self)
    ELSE command(self, Cmd("CH", ch_num, "SCAle", Fmt(".3E", scale)), io)

get_channel_scale(self, ch_num, io, reply) ==
    IF ~check_ch_num(ch_num) THEN ValueError(self)
    ELSE FloatOf(query(self, Cmd("CH", ch_num, "SCAle?", NoVal), io, reply))

set_channel_position(self, ch_num, position, io) ==
    IF ~check_ch_num(ch_num) THEN ValueError(self)
    ELSE IF ~position_ok(position) THEN ValueError(self)
    ELSE command(self, Cmd("CH", ch_num, "POSition", Fmt(".3f", position)), io)

get_channel_position(self, ch_num, io, reply) ==
    IF ~check_ch_num(ch_num) THEN ValueError(self)
    ELSE FloatOf(query(self, Cmd("CH", ch_num, "POSition?", NoVal), io, reply))

set_math_channel_type(self, num, math_type, io) ==
    IF ~math_type_ok(math_type) THEN ValueError(self)
    ELSE command(self, Cmd("MATH", num, "TYPe", math_type), io)

\* return self.query(cmd)
get_math_channel_type(self, num, io, reply) ==
    LET r == query(self, Cmd("MATH", num, "TYPe?", NoVal), io, reply)
    IN Returning(r, r.val)

set_math_channel_function(self, num, function, io) ==
    command(self, Cmd("MATH", num, "DEFine", function), io)

get_math_channel_function(self, num, io, reply) ==
    LET r == query(self, Cmd("MATH", num, "DEFine?", NoVal), io, reply)
    IN Returning(r, StripChars(Strip(r.val), Quote))

\* set_x_scale ending in self.command(cmd) as the other setters do
set_x_scale_sending(self, scale, io) ==
    IF ~x_scale_ok(scale) THEN ValueError(self)
    ELSE command(self, Cmd("HORizontal", 0, "SCAle", Fmt(".4E", scale)), io)

\* builds cmd and returns: nothing is handed to command()
set_x_scale(self, scale, io) ==
    IF ~x_scale_ok(scale) THEN ValueError(self)
    ELSE Out("ok", NoVal, self.log)

get_x_scale(self, io, reply) ==
    FloatOf(query(self, Cmd("HORizontal", 0, "SCAle?", NoVal), io, reply))

set_x_position(self, position, io) ==
    IF ~x_position_ok(position) THEN ValueError(self)
    ELSE command(self, Cmd("HORizontal", 0, "POSition", Fmt("!r", position)), io)

get_x_position(self, io, reply) ==
    FloatOf(query(self, Cmd("HORizontal", 0, "POSition?", NoVal), io, reply))

-----------------------------------------------------------------------------
(* Inputs explored *)

ChNumInputs == 0..5
LabelInputs == {StrVal(<<>>), StrVal(Rep("x", 30)), StrVal(Rep("x", 31)), IntVal(7)}
CouplingInputs == {AC, DC, DCREJect, GND}
BandwidthInputs == {-1, 0, 20}
ScaleInputs == {-1, 0, 2}
PositionInputs == {-801, -800, 0, 800, 801}
MathNumInputs == {1}
MathTypeInputs == {DUAL, FFT, ADVanced, SPECTRUM, GND}
FunctionInputs == {<<"C", "H", "1">>}
XScaleInputs == {Sci(-1, 0), Sci(0, 0), Sci(3, -10), Sci(4, -10), Sci(1, -9),
                 Sci(39, -10), Sci(4, -9), Sci(1, -3), Sci(1000, 0), Sci(1001, 0)}
XPositionInputs == {-1, 0, 100, 101}
IdnReplies == {<<>>, IdnText}
RawMessages == {Cmd("*CLS", 0, "", NoVal),
                Cmd("HORizontal", 0, "SCAle", Fmt(".4E", Sci(1, -3)))}
Pads == 0..MaxPad

-----------------------------------------------------------------------------
(* State machine *)

NoOp == [name |-> "none"]
NoRes == [kind |-> "none", val |-> NoVal]
NoReply == [text |-> <<>>, value |-> <<>>, replied |-> FALSE]
NoCtor == [how |-> "none"]

Self == [session |-> session, log |-> sent]

Init ==
    /\ handle = "none"
    /\ ctor = NoCtor
    /\ session = "unopened"
    /\ scope = "out"
    /\ exitCloses = 0
    /\ releases = 0
    /\ sent = <<>>
    /\ sentBefore = <<>>
    /\ instr = [coupling |-> [ch \in CH_NUMS |-> DC], xscale |-> Sci(4, -6)]
    /\ lastOp = NoOp
    /\ lastRes = NoRes
    /\ lastReply = NoReply

\* the handle exists and no exception is on its way out of a with block
Callable == handle = "live" /\ scope # "unwind"

\* the instrument after the call: it executes a command that reached it
InstrAfter(out) ==
    IF Len(out.log) > Len(sent) /\ out.log[Len(out.log)].call = "write"
    THEN InstrApply(instr, out.log[Len(out.log)].msg)
    ELSE instr

\* A call on the handle ended as out.  An exception inside a with block
\* starts unwinding it.
Call(op, out, reply) ==
    /\ Callable
    /\ lastOp' = op
    /\ lastRes' = [kind |-> out.kind, val |-> out.val]
    /\ lastReply' = IF Len(out.log) > Len(sent) /\ out.kind # "VisaIOError"
                    THEN reply ELSE NoReply
    /\ sentBefore' = sent
    /\ sent' = out.log
    /\ instr' = InstrAfter(out)
    /\ scope' = IF scope = "in" /\ out.kind # "ok" THEN "unwind" ELSE scope
    /\ UNCHANGED <<handle, ctor, session, exitCloses, releases>>

\* the reply of the instrument to msg: its value for the field, decorated
Reply(msg, v, l, r, q) ==
    [text |-> ReplyText(InstrValue(instr, msg, v), l, r, q),
     value |-> InstrValue(instr, msg, v), replied |-> TRUE]

\* a call, its arguments and the session state it was made on
Op(name, ch, arg) == [name |-> name, ch |-> ch, arg |-> arg, on |-> session]

\* instance = ModelMDO34(...) or instance = ModelMDO34.create(...)
Constructed(how, argsOk, openOk, io, reply, r, res) ==
    /\ handle = "none"
    /\ handle' = IF res.ret = "handle" THEN "live"
                 ELSE IF res.raised # "none" THEN "raised" ELSE "absent"
    /\ ctor' = [how |-> how, argsOk |-> argsOk, openOk |-> openOk, io |-> io,
                idn |-> reply, kind |-> r.kind, raised |-> res.raised,
                ret |-> res.ret]
    /\ session' = r.session
    /\ sent' = r.log
    /\ sentBefore' = sent
    /\ UNCHANGED <<scope, exitCloses, releases, instr, lastOp, lastRes, lastReply>>

Construct(argsOk, openOk, io, reply) ==
    LET r == ModelMDO34_init(argsOk, openOk, io, reply)
    IN Constructed("ctor", argsOk, openOk, io, reply, r, construct(r))

Create(argsOk, openOk, io, reply) ==
    LET r == ModelMDO34_init(argsOk, openOk, io, reply)
    IN Constructed("create", argsOk, openOk, io, reply, r, create(r))

\* BaseInstrument.__enter__: return self
Enter ==
    /\ Callable
    /\ scope \in {"out", "exited", "raised"}
    /\ scope' = "in"
    /\ exitCloses' = 0
    /\ UNCHANGED <<handle, ctor, session, releases, sent, sentBefore, instr,
                   lastOp, lastRes, lastReply>>

\* close that releases the session through the VISA library whether or not
\* the session is still open
CloseSession_releasing_again ==
    /\ session' = "closed"
    /\ releases' = releases + 1

\* VisaInstrument.close: self._inst.close()
CloseSession ==
    /\ session' = inst_close(session)
    /\ releases' = IF session' # session THEN releases + 1 ELSE releases

\* __exit__ with "if exc_type is None: self.close()"
Exit_close_unless_raised ==
    /\ handle = "live"
    /\ scope \in {"in", "unwind"}
    /\ scope' = IF scope = "unwind" THEN "raised" ELSE "exited"
    /\ IF scope = "in"
       THEN exitCloses' = exitCloses + 1 /\ CloseSession
       ELSE UNCHANGED <<exitCloses, session, releases>>
    /\ UNCHANGED <<handle, ctor, sent, sentBefore, instr, lastOp, lastRes, lastReply>>

\* BaseInstrument.__exit__: self.close().  It returns None, so an exception
\* of the body goes on to the caller of the with block.
Exit ==
    /\ handle = "live"
    /\ scope \in {"in", "unwind"}
    /\ scope' = IF scope = "unwind" THEN "raised" ELSE "exited"
    /\ exitCloses' = exitCloses + 1
    /\ CloseSession
    /\ UNCHANGED <<handle, ctor, sent, sentBefore, instr, lastOp, lastRes, lastReply>>

\* an explicit close()
Close ==
    /\ Callable
    /\ CloseSession
    /\ lastOp' = Op("close", 0, NoVal)
    /\ lastRes' = [kind |-> "ok", val |-> NoVal]
    /\ lastReply' = NoReply
    /\ sentBefore' = sent
    /\ UNCHANGED <<handle, ctor, scope, exitCloses, sent, instr>>

Write(msg, io) == Call(Op("write", 0, msg), write(Self, msg, io), NoReply)

Command(msg, io) == Call(Op("command", 0, msg), command(Self, msg, io), NoReply)

Read(io, l, r) ==
    LET reply == Reply(Cmd("", 0, "", NoVal), IdnText, l, r, FALSE)
    IN Call(Op("read", 0, NoVal), read(Self, io, reply.text),
            IF session = "open" /\ io THEN reply ELSE NoReply)

Query(msg, io, l, r) ==
    LET reply == Reply(msg, IdnText, l, r, FALSE)
    IN Call(Op("query", 0, msg), query(Self, msg, io, reply.text), reply)

-----------------------------------------------------------------------------
(* Calls of the command catalog *)

LabelText == <<"a", "b">>
NumberText == <<"5">>

SetChannelLabel(ch, label, io) ==
    Call(Op("set_channel_label", ch, label),
         set_channel_label(Self, ch, label, io), NoReply)

GetChannelLabel(ch, io, l, r, q) ==
    LET reply == Reply(Cmd("CH", ch, "LABel?", NoVal), LabelText, l, r, q)
    IN Call(Op("get_channel_label", ch, NoVal),
            get_channel_label(Self, ch, io, reply.text), reply)

SetChannelCoupling(ch, coupling, io) ==
    Call(Op("set_channel_coupling", ch, coupling),
         set_channel_coupling(Self, ch, coupling, io), NoReply)

GetChannelCoupling(ch, io, l, r, q) ==
    LET reply == Reply(Cmd("CH", ch, "COUPling?", NoVal), DC, l, r, q)
    IN Call(Op("get_channel_coupling", ch, NoVal),
            get_channel_coupling(Self, ch, io, reply.text), reply)

SetChannelBandwidth(ch, bandwidth, io) ==
    Call(Op("set_channel_bandwidth", ch, bandwidth),
         set_channel_bandwidth(Self, ch, bandwidth, io), NoReply)

GetChannelBandwidth(ch, io, l, r) ==
    LET reply == Reply(Cmd("CH", ch, "BANdwidth?", NoVal), NumberText, l, r, FALSE)
    IN Call(Op("get_channel_bandwidth", ch, NoVal),
            get_channel_bandwidth(Self, ch, io, reply.text), reply)

SetChannelScale(ch, scale, io) ==
    Call(Op("set_channel_scale", ch, scale),
         set_channel_scale(Self, ch, scale, io), NoReply)

GetChannelScale(ch, io, l, r) ==
    LET reply == Reply(Cmd("CH", ch, "SCAle?", NoVal), NumberText, l, r, FALSE)
    IN Call(Op("get_channel_scale", ch, NoVal),
            get_channel_scale(Self, ch, io, reply.text), reply)

SetChannelPosition(ch, position, io) ==
    Call(Op("set_channel_position", ch, position),
         set_channel_position(Self, ch, position, io), NoReply)

GetChannelPosition(ch, io, l, r) ==
    LET reply == Reply(Cmd("CH", ch, "POSition?", NoVal), NumberText, l, r, FALSE)
    IN Call(Op("get_channel_position", ch, NoVal),
            get_channel_position(Self, ch, io, reply.text), reply)

SetMathChannelType(num, math_type, io) ==
    Call(Op("set_math_channel_type", num, math_type),
         set_math_channel_type(Self, num, math_type, io), NoReply)

GetMathChannelType(num, io, l, r, q) ==
    LET reply == Reply(Cmd("MATH", num, "TYPe?", NoVal), FFT, l, r, q)
    IN Call(Op("get_math_channel_type", num, NoVal),
            get_math_channel_type(Self, num, io, reply.text), reply)

SetMathChannelFunction(num, function, io) ==
    Call(Op("set_math_channel_function", num, function),
         set_math_channel_function(Self, num, function, io), NoReply)

GetMathChannelFunction(num, io, l, r, q) ==
    LET reply == Reply(Cmd("MATH", num, "DEFine?", NoVal), LabelText, l, r, q)
    IN Call(Op("get_math_channel_function", num, NoVal),
            get_math_channel_function(Self, num, io, reply.text), reply)

SetXScale(scale, io) ==
    Call(Op("set_x_scale", 0, scale), set_x_scale(Self, scale, io), NoReply)

GetXScale(io, l, r) ==
    LET reply == Reply(Cmd("HORizontal", 0, "SCAle?", NoVal), NumberText, l, r, FALSE)
    IN Call(Op("get_x_scale", 0, NoVal), get_x_scale(Self, io, reply.text), reply)

SetXPosition(position, io) ==
    Call(Op("set_x_position", 0, position),
         set_x_position(Self, position, io), NoReply)

GetXPosition(io, l, r) ==
    LET reply == Reply(Cmd("HORizontal", 0, "POSition?", NoVal), NumberText, l, r, FALSE)
    IN Call(Op("get_x_position", 0, NoVal), get_x_position(Self, io, reply.text), reply)

-----------------------------------------------------------------------------
(* Specifications.  Next is the whole handle; the other specifications      *)
(* explore a part of it, within a bound on the length of the log.           *)

Constructs ==
    \E a, o, io \in BOOLEAN, reply \in IdnReplies : Construct(a, o, io, reply)

Creates ==
    \E a, o, io \in BOOLEAN, reply \in IdnReplies : Create(a, o, io, reply)

Lifecycle == Constructs \/ Creates \/ Enter \/ Exit \/ Close

RawIO ==
    \/ \E msg \in RawMessages, io \in BOOLEAN : Write(msg, io)
    \/ \E msg \in RawMessages, io \in BOOLEAN : Command(msg, io)
    \/ \E io \in BOOLEAN, l, r \in Pads : Read(io, l, r)
    \/ \E msg \in RawMessages, io \in BOOLEAN, l, r \in Pads : Query(msg, io, l, r)

ChannelOps ==
    \/ \E ch \in ChNumInputs, v \in LabelInputs, io \in BOOLEAN :
          SetChannelLabel(ch, v, io)
    \/ \E ch \in ChNumInputs, io, q \in BOOLEAN, l, r \in Pads :
          GetChannelLabel(ch, io, l, r, q)
    \/ \E ch \in ChNumInputs, v \in CouplingInputs, io \in BOOLEAN :
          SetChannelCoupling(ch, v, io)
    \/ \E ch \in ChNumInputs, io, q \in BOOLEAN, l, r \in Pads :
          GetChannelCoupling(ch, io, l, r, q)
    \/ \E ch \in ChNumInputs, v \in BandwidthInputs, io \in BOOLEAN :
          SetChannelBandwidth(ch, v, io)
    \/ \E ch \in ChNumInputs, io \in BOOLEAN, l, r \in Pads :
          GetChannelBandwidth(ch, io, l, r)
    \/ \E ch \in ChNumInputs, v \in ScaleInputs, io \in BOOLEAN :
          SetChannelScale(ch, v, io)
    \/ \E ch \in ChNumInputs, io \in BOOLEAN, l, r \in Pads :
          GetChannelScale(ch, io, l, r)
    \/ \E ch \in ChNumInputs, v \in PositionInputs, io \in BOOLEAN :
          SetChannelPosition(ch, v, io)
    \/ \E ch \in ChNumInputs, io \in BOOLEAN, l, r \in Pads :
          GetChannelPosition(ch, io, l, r)

MathOps ==
    \/ \E n \in MathNumInputs, v \in MathTypeInputs, io \in BOOLEAN :
          SetMathChannelType(n, v, io)
    \/ \E n \in MathNumInputs, io, q \in BOOLEAN, l, r \in Pads :
          GetMathChannelType(n, io, l, r, q)
    \/ \E n \in MathNumInputs, v \in FunctionInputs, io \in BOOLEAN :
          SetMathChannelFunction(n, v, io)
    \/ \E n \in MathNumInputs, io, q \in BOOLEAN, l, r \in Pads :
          GetMathChannelFunction(n, io, l, r, q)

HorizontalOps ==
    \/ \E v \in XScaleInputs, io \in BOOLEAN : SetXScale(v, io)
    \/ \E io \in BOOLEAN, l, r \in Pads : GetXScale(io, l, r)
    \/ \E v \in XPositionInputs, io \in BOOLEAN : SetXPosition(v, io)
    \/ \E io \in BOOLEAN, l, r \in Pads : GetXPosition(io, l, r)

Next == Lifecycle \/ RawIO \/ ChannelOps \/ MathOps \/ HorizontalOps

Spec == Init /\ [][Next]_vars

\* the step A, taken where it keeps the log within cap messages
Within(A, cap) == A /\ Len(sent') <= cap

\* Construction, scoped use, close and the message-level calls, with one
\* catalog setter and getter
NextLife ==
    \/ Constructs
    \/ Creates
    \/ Enter
    \/ Exit
    \/ Close
    \/ \E msg \in RawMessages, io \in BOOLEAN :
          Within(Write(msg, io), MaxSent)
    \/ \E msg \in RawMessages, io \in BOOLEAN :
          Within(Command(msg, io), MaxSent)
    \/ \E io \in BOOLEAN, l, r \in Pads :
          Within(Read(io, l, r), MaxSent)
    \/ \E msg \in RawMessages, io \in BOOLEAN, l, r \in Pads :
          Within(Query(msg, io, l, r), MaxSent)
    \/ \E ch \in {1, 5}, io \in BOOLEAN :
          Within(SetChannelCoupling(ch, AC, io), MaxSent)
    \/ \E io \in BOOLEAN :
          Within(GetChannelCoupling(1, io, 0, 0, FALSE), MaxSent)

SpecLife == Init /\ [][NextLife]_vars

\* Every call of the handle with arguments its checks accept, before and
\* after close and scope exit
NextClosed ==
    \/ Constructs
    \/ Enter
    \/ Exit
    \/ Close
    \/ \E io \in BOOLEAN :
          Within(Write(Cmd("*CLS", 0, "", NoVal), io), MaxSent)
    \/ \E io \in BOOLEAN :
          Within(Command(Cmd("*CLS", 0, "", NoVal), io), MaxSent)
    \/ \E io \in BOOLEAN :
          Within(Read(io, 0, 0), MaxSent)
    \/ \E io \in BOOLEAN :
          Within(Query(Cmd("*OPC?", 0, "", NoVal), io, 0, 0), MaxSent)
    \/ \E io \in BOOLEAN :
          Within(SetChannelLabel(1, StrVal(LabelText), io), MaxSent)
    \/ \E io \in BOOLEAN :
          Within(GetChannelLabel(1, io, 0, 0, TRUE), MaxSent)
    \/ \E io \in BOOLEAN :
          Within(SetChannelCoupling(1, AC, io), MaxSent)
    \/ \E io \in BOOLEAN :
          Within(GetChannelCoupling(1, io, 0, 0, FALSE), MaxSent)
    \/ \E io \in BOOLEAN :
          Within(SetChannelBandwidth(1, 20, io), MaxSent)
    \/ \E io \in BOOLEAN :
          Within(GetChannelBandwidth(1, io, 0, 0), MaxSent)
    \/ \E io \in BOOLEAN :
          Within(SetChannelScale(1, 2, io), MaxSent)
    \/ \E io \in BOOLEAN :
          Within(GetChannelScale(1, io, 0, 0), MaxSent)
    \/ \E io \in BOOLEAN :
          Within(SetChannelPosition(1, 0, io), MaxSent)
    \/ \E io \in BOOLEAN :
          Within(GetChannelPosition(1, io, 0, 0), MaxSent)
    \/ \E io \in BOOLEAN :
          Within(SetMathChannelType(1, FFT, io), MaxSent)
    \/ \E io \in BOOLEAN :
          Within(GetMathChannelType(1, io, 0, 0, FALSE), MaxSent)
    \/ \E io \in BOOLEAN :
          Within(SetMathChannelFunction(1, <<"C", "H", "1">>, io), MaxSent)
    \/ \E io \in BOOLEAN :
          Within(GetMathChannelFunction(1, io, 0, 0, TRUE), MaxSent)
    \/ \E io \in BOOLEAN :
          Within(SetXScale(Sci(1, -3), io), MaxSent)
    \/ \E io \in BOOLEAN :
          Within(GetXScale(io, 0, 0), MaxSent)
    \/ \E io \in BOOLEAN :
          Within(SetXPosition(50, io), MaxSent)
    \/ \E io \in BOOLEAN :
          Within(GetXPosition(io, 0, 0), MaxSent)

SpecClosed == Init /\ [][NextClosed]_vars

\* The ten channel-scoped calls on valid and invalid channels, with valid
\* and invalid values
NextChannel ==
    \/ Constructs
    \/ \E ch \in {0, 1, 4, 5}, v \in {StrVal(LabelText), StrVal(Rep("x", 31))},
             io \in BOOLEAN :
          Within(SetChannelLabel(ch, v, io), MaxSent)
    \/ \E ch \in {0, 1, 4, 5}, io \in BOOLEAN :
          Within(GetChannelLabel(ch, io, 0, 0, TRUE), MaxSent)
    \/ \E ch \in {0, 1, 4, 5}, v \in {AC, GND}, io \in BOOLEAN :
          Within(SetChannelCoupling(ch, v, io), MaxSent)
    \/ \E ch \in {0, 1, 4, 5}, io \in BOOLEAN :
          Within(GetChannelCoupling(ch, io, 0, 0, FALSE), MaxSent)
    \/ \E ch \in {0, 1, 4, 5}, v \in {0, 20}, io \in BOOLEAN :
          Within(SetChannelBandwidth(ch, v, io), MaxSent)
    \/ \E ch \in {0, 1, 4, 5}, io \in BOOLEAN :
          Within(GetChannelBandwidth(ch, io, 0, 0), MaxSent)
    \/ \E ch \in {0, 1, 4, 5}, v \in {0, 2}, io \in BOOLEAN :
          Within(SetChannelScale(ch, v, io), MaxSent)
    \/ \E ch \in {0, 1, 4, 5}, io \in BOOLEAN :
          Within(GetChannelScale(ch, io, 0, 0), MaxSent)
    \/ \E ch \in {0, 1, 4, 5}, v \in {0, 801}, io \in BOOLEAN :
          Within(SetChannelPosition(ch, v, io), MaxSent)
    \/ \E ch \in {0, 1, 4, 5}, io \in BOOLEAN :
          Within(GetChannelPosition(ch, io, 0, 0), MaxSent)

SpecChannel == Init /\ [][NextChannel]_vars

\* The setters that check a value, on valid channels
NextSetters ==
    \/ Constructs
    \/ \E ch \in {1, 4}, v \in LabelInputs, io \in BOOLEAN :
          Within(SetChannelLabel(ch, v, io), MaxSent)
    \/ \E ch \in {1, 4}, v \in CouplingInputs, io \in BOOLEAN :
          Within(SetChannelCoupling(ch, v, io), MaxSent)
    \/ \E ch \in {1, 4}, v \in BandwidthInputs, io \in BOOLEAN :
          Within(SetChannelBandwidth(ch, v, io), MaxSent)
    \/ \E ch \in {1, 4}, v \in ScaleInputs, io \in BOOLEAN :
          Within(SetChannelScale(ch, v, io), MaxSent)
    \/ \E n \in MathNumInputs, v \in MathTypeInputs, io \in BOOLEAN :
          Within(SetMathChannelType(n, v, io), MaxSent)
    \/ \E v \in XPositionInputs, io \in BOOLEAN :
          Within(SetXPosition(v, io), MaxSent)

SpecSetters == Init /\ [][NextSetters]_vars

\* The vertical position of every channel
NextPosition ==
    \/ Constructs
    \/ \E ch \in ChNumInputs, v \in PositionInputs, io \in BOOLEAN :
          Within(SetChannelPosition(ch, v, io), MaxSent)
    \/ \E ch \in ChNumInputs, io \in BOOLEAN, l, r \in Pads :
          Within(GetChannelPosition(ch, io, l, r), MaxSent)

SpecPosition == Init /\ [][NextPosition]_vars

\* The horizontal scale and position, with a message-level write that sets
\* the instrument's horizontal scale
NextHorizontal ==
    \/ Constructs
    \/ \E io \in BOOLEAN :
          Within(Write(Cmd("HORizontal", 0, "SCAle", Fmt(".4E", Sci(1, -3))), io),
                 MaxRoundTrip)
    \/ \E v \in XScaleInputs, io \in BOOLEAN :
          Within(SetXScale(v, io), MaxRoundTrip)
    \/ \E io \in BOOLEAN, l, r \in Pads :
          Within(GetXScale(io, l, r), MaxRoundTrip)
    \/ \E v \in XPositionInputs, io \in BOOLEAN :
          Within(SetXPosition(v, io), MaxRoundTrip)
    \/ \E io \in BOOLEAN, l, r \in Pads :
          Within(GetXPosition(io, l, r), MaxRoundTrip)

SpecHorizontal == Init /\ [][NextHorizontal]_vars

\* every setter of the catalog on channel 1 with a valid and an invalid
\* argument, a raw write of the horizontal scale, and get_x_scale
NextTransmit ==
    \/ Constructs
    \/ \E io \in BOOLEAN :
          Within(Write(Cmd("HORizontal", 0, "SCAle", Fmt(".4E", Sci(1, -3))), io),
                 MaxRoundTrip)
    \/ \E v \in {Sci(1000, 0), Sci(1, -3), Sci(1001, 0)}, io \in BOOLEAN :
          Within(SetXScale(v, io), MaxRoundTrip)
    \/ \E io \in BOOLEAN, l, r \in Pads :
          Within(GetXScale(io, l, r), MaxRoundTrip)
    \/ \E v \in {StrVal(LabelText), StrVal(Rep("x", 31))}, io \in BOOLEAN :
          Within(SetChannelLabel(1, v, io), MaxRoundTrip)
    \/ \E v \in {AC, GND}, io \in BOOLEAN :
          Within(SetChannelCoupling(1, v, io), MaxRoundTrip)
    \/ \E v \in {0, 20}, io \in BOOLEAN :
          Within(SetChannelBandwidth(1, v, io), MaxRoundTrip)
    \/ \E v \in {0, 2}, io \in BOOLEAN :
          Within(SetChannelScale(1, v, io), MaxRoundTrip)
    \/ \E v \in {800, 801}, io \in BOOLEAN :
          Within(SetChannelPosition(1, v, io), MaxRoundTrip)
    \/ \E n \in MathNumInputs, v \in {FFT, GND}, io \in BOOLEAN :
          Within(SetMathChannelType(n, v, io), MaxRoundTrip)
    \/ \E n \in MathNumInputs, v \in FunctionInputs, io \in BOOLEAN :
          Within(SetMathChannelFunction(n, v, io), MaxRoundTrip)
    \/ \E v \in {100, 101}, io \in BOOLEAN :
          Within(SetXPosition(v, io), MaxRoundTrip)

SpecTransmit == Init /\ [][NextTransmit]_vars

\* Coupling set and read back on every channel
NextCoupling ==
    \/ Constructs
    \/ \E ch \in CH_NUMS, v \in {AC, DC, DCREJect}, io \in BOOLEAN :
          Within(SetChannelCoupling(ch, v, io), MaxRoundTrip)
    \/ \E ch \in CH_NUMS, io \in BOOLEAN, l, r \in Pads :
          Within(GetChannelCoupling(ch, io, l, r, FALSE), MaxRoundTrip)

SpecCoupling == Init /\ [][NextCoupling]_vars

\* The getters of text, with padded and quoted replies
NextGetters ==
    \/ Constructs
    \/ \E ch \in {1, 4}, io, q \in BOOLEAN, l, r \in Pads :
          Within(GetChannelLabel(ch, io, l, r, q), MaxRoundTrip)
    \/ \E ch \in {1, 4}, io, q \in BOOLEAN, l, r \in Pads :
          Within(GetChannelCoupling(ch, io, l, r, q), MaxRoundTrip)
    \/ \E n \in MathNumInputs, io, q \in BOOLEAN, l, r \in Pads :
          Within(GetMathChannelType(n, io, l, r, q), MaxRoundTrip)
    \/ \E n \in MathNumInputs, io, q \in BOOLEAN, l, r \in Pads :
          Within(GetMathChannelFunction(n, io, l, r, q), MaxRoundTrip)

SpecGetters == Init /\ [][NextGetters]_vars

-----------------------------------------------------------------------------
(* Claims *)

IdnQuery == [call |-> "query", msg |-> Cmd("*IDN?", 0, "", NoVal)]

\* the identity probe of a construction ran: the arguments were accepted and
\* the session was opened
Probed == ctor.how # "none" /\ ctor.argsOk /\ ctor.openOk

\* C1: whenever the identity probe of a construction fails -- the '*IDN?'
\* query raises a VISA I/O error, or it returns the empty string -- the
\* constructor ends with InstrIOError and with no other kind of error.
C1_ProbeFailureIsInstrIOError ==
    (Probed /\ (~ctor.io \/ ctor.idn = <<>>)) => ctor.kind = "InstrIOError"

\* C2: the close() calls made by __exit__ number exactly one once a with
\* block has been left, normally or by an exception of its body, and none
\* while the block is running; the session is closed after the block.
C2_ScopeClosesExactlyOnce ==
    /\ scope \in {"exited", "raised"} => exitCloses = 1 /\ session = "closed"
    /\ scope \in {"in", "unwind"} => exitCloses = 0

\* a with block was left by a validation error raised inside it, and close
\* ran once
C2_Witness ==
    /\ scope = "raised"
    /\ lastRes.kind = "ValueError"
    /\ exitCloses = 1
    /\ releases = 1

\* C5: create never propagates an error.  It returns None when the
\* arguments are bad, the session cannot be opened, the identity probe
\* raises or the identity is empty, and the handle -- opened and checked by
\* a successful '*IDN?' -- in the one remaining case.
C5_CreateNeverPropagates ==
    ctor.how = "create" =>
        /\ ctor.raised = "none"
        /\ ctor.ret \in {"handle", "None"}
        /\ (~ctor.argsOk \/ ~ctor.openOk \/ ~ctor.io \/ ctor.idn = <<>>)
              => ctor.ret = "None" /\ handle = "absent"
        /\ (ctor.argsOk /\ ctor.openOk /\ ctor.io /\ ctor.idn # <<>>)
              => ctor.ret = "handle" /\ handle = "live" /\ sent[1] = IdnQuery

\* create returned None where the constructor raised for an empty identity
C5_Witness ==
    /\ ctor.how = "create"
    /\ Probed /\ ctor.io /\ ctor.idn = <<>>
    /\ ctor.kind = "ValueError"
    /\ ctor.ret = "None"

ChannelCalls ==
    {"set_channel_label", "get_channel_label", "set_channel_coupling",
     "get_channel_coupling", "set_channel_bandwidth", "get_channel_bandwidth",
     "set_channel_scale", "get_channel_scale", "set_channel_position",
     "get_channel_position"}

\* the latest call raised a validation error and transmitted nothing
Rejected == lastRes.kind = "ValueError" /\ sent = sentBefore

\* C3: each of the ten channel-scoped calls, given a channel number outside
\* {1,2,3,4}, raises a validation error and leaves the transmitted-message
\* log as it was, whatever its other argument.
C3_InvalidChannelRejected ==
    (lastOp.name \in ChannelCalls /\ lastOp.ch \notin {1, 2, 3, 4}) => Rejected

\* a setter was called with channel 0 and a value it accepts, after the
\* identity query had been transmitted
C3_Witness ==
    /\ lastOp.name = "set_channel_bandwidth"
    /\ lastOp.ch = 0
    /\ lastOp.arg = 20
    /\ Rejected
    /\ sent = <<IdnQuery>>

\* the calls that hand a message to the transport when their arguments pass
TransmittingCalls ==
    (ChannelCalls \cup
     {"write", "command", "read", "query", "set_math_channel_type",
      "get_math_channel_type", "set_math_channel_function",
      "get_math_channel_function", "get_x_scale", "set_x_position",
      "get_x_position"})

\* C4: a write, command, read, query or transmitting catalog call made on a
\* handle whose session is closed (by close() or by leaving a with block)
\* raises: it never returns normally, and it transmits nothing.
C4_ClosedHandleCallsFail ==
    (lastOp.name \in TransmittingCalls /\ lastOp.on = "closed") =>
        /\ lastRes.kind \in {"InvalidSession", "ValueError"}
        /\ sent = sentBefore

\* a getter was called after a with block had closed the handle, following
\* a command transmitted inside the block
C4_Witness ==
    /\ scope = "exited"
    /\ lastOp.name = "get_channel_label"
    /\ lastOp.on = "closed"
    /\ lastRes.kind = "InvalidSession"
    /\ Len(sent) = 2

\* C6: on a valid channel, a setter given a value outside its domain raises a
\* validation error and transmits nothing: a label that is no string or is
\* longer than 30 characters (one of 30 is not rejected), a coupling outside
\* {AC, DC, DCREJect}, a bandwidth or scale <= 0, a math type outside
\* {DUAL, FFT, ADVanced, SPECTRUM}, a horizontal position outside [0, 100].
C6_InvalidValueRejected ==
    /\ (lastOp.name = "set_channel_label" /\ lastOp.ch \in {1, 2, 3, 4}) =>
          /\ (lastOp.arg.type # "str" \/ Len(lastOp.arg.val) > 30) => Rejected
          /\ (lastOp.arg.type = "str" /\ Len(lastOp.arg.val) <= 30)
                => lastRes.kind # "ValueError"
    /\ (lastOp.name = "set_channel_coupling" /\ lastOp.ch \in {1, 2, 3, 4}
          /\ lastOp.arg \notin {AC, DC, DCREJect}) => Rejected
    /\ (lastOp.name \in {"set_channel_bandwidth", "set_channel_scale"}
          /\ lastOp.ch \in {1, 2, 3, 4} /\ lastOp.arg <= 0) => Rejected
    /\ (lastOp.name = "set_math_channel_type"
          /\ lastOp.arg \notin {DUAL, FFT, ADVanced, SPECTRUM}) => Rejected
    /\ (lastOp.name = "set_x_position"
          /\ (lastOp.arg < 0 \/ lastOp.arg > 100)) => Rejected

\* a label of 31 characters was rejected on channel 4 after a label of 30
\* characters had been transmitted
C6_Witness ==
    /\ lastOp.name = "set_channel_label"
    /\ lastOp.ch = 4
    /\ lastOp.arg = StrVal(Rep("x", 31))
    /\ Rejected
    /\ Len(sent) = 2
    /\ sent[2].msg.field = "LABel"
    /\ Len(sent[2].msg.arg) = 30

\* C7: set_channel_position on a valid channel raises no validation error
\* for -8 <= position <= 8 and, when it returns, has transmitted exactly one
\* command, CH<n>:POSition with that position (a call the transport fails
\* transmits none); below -8 or above 8 it raises a validation error and
\* transmits nothing.
C7_PositionClosedInterval ==
    (lastOp.name = "set_channel_position" /\ lastOp.ch \in {1, 2, 3, 4}) =>
        IF -800 <= lastOp.arg /\ lastOp.arg <= 800
        THEN /\ lastRes.kind # "ValueError"
             /\ lastRes.kind = "ok" <=>
                  sent = Append(sentBefore,
                      [call |-> "write",
                       msg |-> Cmd("CH", lastOp.ch, "POSition",
                                   Fmt(".3f", lastOp.arg))])
             /\ lastRes.kind # "ok" => sent = sentBefore
        ELSE Rejected

\* position 8 was accepted on channel 3 and its command transmitted
C7_Witness ==
    /\ lastOp.name = "set_channel_position"
    /\ lastOp.ch = 3
    /\ lastOp.arg = 800
    /\ lastRes.kind = "ok"
    /\ Len(sent) = Len(sentBefore) + 1
    /\ sent[Len(sent)].msg.field = "POSition"

\* C8: set_x_scale raises no validation error exactly for the scales with
\* 400e-12 <= scale <= 1000.
C8_XScaleDomain ==
    lastOp.name = "set_x_scale" =>
        (lastRes.kind # "ValueError" <=>
            (SciLeq(Sci(400, -12), lastOp.arg) /\ SciLeq(lastOp.arg, Sci(1000, 0))))

\* the coupling the instrument holds for channel ch after the commands of
\* log: that of the latest CH<ch>:COUPling command, DC if there is none
RECURSIVE CouplingSet(_, _)
CouplingSet(log, ch) ==
    IF log = <<>> THEN DC
    ELSE LET e == log[Len(log)] IN
         IF e.call = "write" /\ e.msg.head = "CH" /\ e.msg.field = "COUPling"
            /\ e.msg.n = ch
         THEN e.msg.arg
         ELSE CouplingSet(SubSeq(log, 1, Len(log) - 1), ch)

\* C9: against the instrument that stores and echoes the coupling of each
\* channel, get_channel_coupling(ch) returns exactly the coupling of the
\* latest set_channel_coupling(ch, c) that was transmitted, whatever blanks
\* pad the reply and whatever was set on other channels in between.
C9_CouplingRoundTrip ==
    (lastOp.name = "get_channel_coupling" /\ lastRes.kind = "ok") =>
        lastRes.val = CouplingSet(sentBefore, lastOp.ch)

\* AC was set on channel 2 and the next call read it back from a padded reply
C9_Witness ==
    /\ lastOp.name = "get_channel_coupling"
    /\ lastOp.ch = 2
    /\ lastRes.kind = "ok"
    /\ lastRes.val = AC
    /\ lastReply.text = <<" ">> \o AC \o <<" ">>
    /\ sentBefore[Len(sentBefore)] =
          [call |-> "write", msg |-> Cmd("CH", 2, "COUPling", AC)]

\* C10: each getter of text returns the value of the instrument's reply
\* without the blanks and the double quotes around it.
C10_TextGettersStrip ==
    (lastOp.name \in {"get_channel_label", "get_channel_coupling",
                      "get_math_channel_type", "get_math_channel_function"}
       /\ lastRes.kind = "ok") => lastRes.val = lastReply.value

\* C11: close is idempotent.  The first close on an open handle releases the
\* session; every further close -- by a second close() or by __exit__ after
\* a close() inside the with block -- returns normally and leaves the session
\* closed, so the session is released exactly once in the handle's lifetime.
C11_CloseIdempotent ==
    /\ releases <= 1
    /\ handle = "live" => (session = "closed" <=> releases = 1)
    /\ lastOp.name = "close" =>
          lastRes.kind = "ok" /\ session = "closed" /\ releases = 1
    /\ scope \in {"exited", "raised"} => session = "closed" /\ releases = 1

\* close() was called on the open handle and __exit__ closed it again
C11_Witness ==
    /\ scope = "exited"
    /\ lastOp.name = "close"
    /\ lastOp.on = "open"
    /\ exitCloses = 1
    /\ session = "closed"
    /\ releases = 1

\* the horizontal scale the instrument holds after the writes of a log
RECURSIVE XScaleSet(_)
XScaleSet(log) ==
    IF log = <<>> THEN Sci(4, -6)
    ELSE LET e == log[Len(log)] IN
         IF e.call = "write" /\ e.msg.head = "HORizontal" /\ e.msg.field = "SCAle"
         THEN e.msg.arg.val
         ELSE XScaleSet(SubSeq(log, 1, Len(log) - 1))

OtherSetters ==
    {"set_channel_label", "set_channel_coupling", "set_channel_bandwidth",
     "set_channel_scale", "set_channel_position", "set_math_channel_type",
     "set_math_channel_function", "set_x_position"}

\* the arguments of a setter call pass the setter's checks
ValidArgs(op) ==
    CASE op.name = "set_channel_label" -> check_ch_num(op.ch) /\ label_ok(op.arg)
      [] op.name = "set_channel_coupling" -> check_ch_num(op.ch) /\ coupling_ok(op.arg)
      [] op.name = "set_channel_bandwidth" -> bandwidth_ok(op.arg)
      [] op.name = "set_channel_scale" -> check_ch_num(op.ch) /\ scale_ok(op.arg)
      [] op.name = "set_channel_position" -> check_ch_num(op.ch) /\ position_ok(op.arg)
      [] op.name = "set_math_channel_type" -> math_type_ok(op.arg)
      [] op.name = "set_math_channel_function" -> TRUE
      [] op.name = "set_x_position" -> x_position_ok(op.arg)
      [] OTHER -> FALSE

\* the last call added exactly one write, and nothing else, to the log
OneCommandSent ==
    /\ Len(sent) = Len(sentBefore) + 1
    /\ SubSeq(sent, 1, Len(sentBefore)) = sentBefore
    /\ sent[Len(sent)].call = "write"

\* after the last call: an accepted set_x_scale left the log and the
\* instrument's horizontal scale as they were; any other setter called with
\* valid arguments on an open session with a working transport returned
\* normally having sent one command and no query
C12_Frame ==
    /\ (lastOp.name = "set_x_scale" /\ lastRes.kind = "ok") =>
          /\ x_scale_ok(lastOp.arg)
          /\ sent = sentBefore
          /\ instr.xscale = XScaleSet(sentBefore)
    /\ (lastOp.name \in OtherSetters /\ ValidArgs(lastOp) /\ lastOp.on = "open"
        /\ lastRes.kind # "VisaIOError") =>
          lastRes.kind = "ok" /\ OneCommandSent

\* a get_x_scale that follows an accepted set_x_scale returns the scale the
\* instrument had before the set
C12_GetAfterSet ==
    (/\ lastOp.name = "set_x_scale"
     /\ lastRes.kind = "ok"
     /\ lastOp'.name = "get_x_scale"
     /\ lastRes'.kind = "ok") =>
        lastRes'.val = XScaleSet(sentBefore)

C13_FailedConstructionReleasesSession ==
    handle \in {"raised", "absent"} => session # "open"

====
